---- MODULE Spec2Model ----
(***************************************************************************)
(* A model of gomemfs: FS, an in-memory file namespace whose keys are      *)
(* seeded by Put or generated on demand by a LIFO chain of Fulfiller       *)
(* callbacks, with lazy and swept expiry.                                  *)
(*                                                                         *)
(* Strings are sequences of one-character strings so that path.Clean,      *)
(* strings.ToLower and strings.TrimPrefix can be computed as the library   *)
(* computes them.  Instants are integers: 0 is the zero time.Time (for     *)
(* which IsZero() holds), the clock `now` runs over 1..MaxTime, and        *)
(* NilTime stands for a nil *time.Time.                                    *)
(***************************************************************************)
EXTENDS Integers, Sequences, FiniteSets, TLC

\* ------------------------------------------------------------------ bounds
\* the clock runs over 1..MaxTime
MaxTime == 2
\* at most MaxChain registered Fulfillers
MaxChain == 2
\* at most MaxOps calls are made on the FS
MaxOps == 3

\* ------------------------------------------------------------------ values
NilTime == -1
NilBytes == "<nil>"
NoErr == "<nil>"
ErrNotExist == "fs.ErrNotExist"

\* the raw names callers pass
P_messy == <<"/", "/", "a", "/", ".", "/", "b", "/", ".", ".", "/", "c">>
P_ac == <<"a", "/", "c">>
P_AC == <<"A", "/", "c">>
P_slash_b == <<"/", "b">>
RawPaths == {P_messy, P_ac, P_AC, P_slash_b}

\* the directories FS.Sub and SubFS.Sub are called with, and the names the
\* SubFS methods are called with
SubDirs == {<<"a">>}
NestDirs == {<<"b">>}
ViewNames == {<<"c">>, <<".", ".", "/", "b">>, <<"/", "c">>}

\* what Put is called with
PutContents == {"p", "q"}
PutModTimes == {0}

\* ------------------------------------------------------------------ strings
\* strings.ToLower, on the alphabet of RawPaths
LowerChar(c) ==
  IF c = "A" THEN "a" ELSE IF c = "B" THEN "b" ELSE IF c = "C" THEN "c" ELSE c

ToLower(s) == [i \in 1..Len(s) |-> LowerChar(s[i])]

\* strings.TrimPrefix(s, "/")
TrimSlash(s) == IF Len(s) > 0 /\ s[1] = "/" THEN Tail(s) ELSE s

\* the index of the first "/" of p at or after r, Len(p)+1 if there is none
RECURSIVE SegEnd(_, _)
SegEnd(p, r) == IF r > Len(p) \/ p[r] = "/" THEN r ELSE SegEnd(p, r + 1)

\* path.Clean's ".." backtrack: out.w--, then back to the previous "/" or dotdot
RECURSIVE BackUp(_, _, _)
BackUp(out, w, dotdot) ==
  IF w > dotdot /\ out[w + 1] # "/" THEN BackUp(out, w - 1, dotdot) ELSE SubSeq(out, 1, w)

\* path.Clean's main loop; r is the 1-based read index, out the output buffer
RECURSIVE CleanLoop(_, _, _, _, _)
CleanLoop(p, r, out, dotdot, rooted) ==
  LET n == Len(p) IN
  IF r > n THEN out
  ELSE IF p[r] = "/" THEN CleanLoop(p, r + 1, out, dotdot, rooted)
  ELSE IF p[r] = "." /\ (r = n \/ p[r + 1] = "/") THEN CleanLoop(p, r + 1, out, dotdot, rooted)
  ELSE IF p[r] = "." /\ p[r + 1] = "." /\ (r + 1 = n \/ p[r + 2] = "/") THEN
    IF Len(out) > dotdot
      THEN CleanLoop(p, r + 2, BackUp(out, Len(out) - 1, dotdot), dotdot, rooted)
    ELSE IF ~rooted
      THEN LET o2 == (IF Len(out) > 0 THEN Append(out, "/") ELSE out) \o <<".", ".">>
           IN CleanLoop(p, r + 2, o2, Len(o2), rooted)
    ELSE CleanLoop(p, r + 2, out, dotdot, rooted)
  ELSE
    LET e == SegEnd(p, r)
        o1 == IF (rooted /\ Len(out) # 1) \/ (~rooted /\ Len(out) # 0)
                THEN Append(out, "/") ELSE out
    IN CleanLoop(p, e, o1 \o SubSeq(p, r, e - 1), dotdot, rooted)

\* path.Clean
Clean(p) ==
  IF Len(p) = 0 THEN <<".">>
  ELSE LET rooted == p[1] = "/"
           out == IF rooted THEN CleanLoop(p, 2, <<"/">>, 1, TRUE)
                            ELSE CleanLoop(p, 1, <<>>, 0, FALSE)
       IN IF Len(out) = 0 THEN <<".">> ELSE out

\* FS.normalize
normalize(name, ci) == TrimSlash(Clean(IF ci THEN ToLower(name) ELSE name))

\* path.Join of two elements: empty elements are dropped, the rest joined
\* with "/" and cleaned; the empty string if both are empty
Join(d, name) ==
  IF d = <<>> /\ name = <<>> THEN <<>>
  ELSE IF d = <<>> THEN Clean(name)
  ELSE IF name = <<>> THEN Clean(d)
  ELSE Clean(d \o <<"/">> \o name)

\* the d of every SubFS that can be made, and every name a SubFS passes on
ViewDirs == SubDirs \cup {Join(d, dir) : d \in SubDirs, dir \in NestDirs}
ViewPaths == {Join(d, name) : d \in ViewDirs, name \in ViewNames}

\* every key a caller can address
Names == {normalize(p, ci) : p \in RawPaths \cup ViewPaths \cup ViewDirs, ci \in BOOLEAN}

\* normalize, tabulated once over the raw names and the keys
NormTable == [ci \in BOOLEAN |-> [p \in RawPaths \cup ViewPaths \cup ViewDirs \cup Names |-> normalize(p, ci)]]
Norm(p, ci) == NormTable[ci][p]

K_ac == <<"a", "/", "c">>
K_AC == <<"A", "/", "c">>
K_b == <<"b">>


\* ------------------------------------------------------------------ Fulfillers
\* what a Fulfiller returns: (content, modtime, expire, err)
Outcome(content, modtime, expire, err) ==
  [content |-> content, modtime |-> modtime, expire |-> expire, err |-> err]

\* (nil, nil, nil, nil): "not mine"
Declines == Outcome(NilBytes, NilTime, NilTime, NoErr)

\* the read-only file system the Compose adapters wrap: name -> (data, ModTime)
DiskFS == (K_ac :> [data |-> "d", modtime |-> 1]) @@ (K_b :> [data |-> "e", modtime |-> 1])

\* a nil *time.Duration
NilTTL == -1

\* Compose(t, ttl), called with path at instant t0
Compose(t, ttl, path, t0) ==
  IF path \notin DOMAIN t THEN Outcome(NilBytes, NilTime, NilTime, "cannot open")
  ELSE IF ttl # NilTTL THEN Outcome(t[path].data, t[path].modtime, t0 + ttl, NoErr)
  ELSE Outcome(t[path].data, t[path].modtime, NilTime, NoErr)

\* the Fulfillers a caller registers: two Compose adapters and a hand-written one
Gens == {"composeNil", "composeTTL", "custom"}

\* Fulfiller g called with a normalized path at instant t0
Fulfiller(g, path, t0) ==
  CASE g = "composeNil" -> Compose(DiskFS, NilTTL, path, t0)
    [] g = "composeTTL" -> Compose(DiskFS, 1, path, t0)
    [] g = "custom" -> IF path = K_b THEN Outcome("z", NilTime, 0, NoErr)
                       ELSE IF path = K_AC THEN Outcome("o", NilTime, 1, NoErr)
                       ELSE Declines

\* ------------------------------------------------------------------ state
VARIABLES
  keys,             \* FS.keys: normalized name -> key
  callbacks,        \* FS.callbacks, in registration order
  caseInsensitive,  \* FS.caseInsensitive
  statFulfills,     \* FS.statFulfills
  now,              \* time.Now()
  calls,            \* history: calls[i] is how often callbacks[i] has been invoked
  seeded,           \* history: the raw name under which Put seeded each key still in the map
  last,             \* history: the call that has just returned, none once the clock moved
  nops,             \* history: how many calls have been made on the FS
  views,            \* the SubFS values made so far: d -> how it was made
  via,              \* history: the SubFS and the name of the call that has just returned
  mu,               \* FS.mu: the goroutine that holds it, 0 if none
  pc,               \* where each goroutine is in the call it is making
  loc               \* the arguments and local variables of that call

vars == <<keys, callbacks, caseInsensitive, statFulfills, now, calls, seeded, last, nops,
          views, via, mu, pc, loc>>

\* the goroutines that call the FS at the same time
NumThreads == 2
Threads == 1..NumThreads

\* the locals of a goroutine that is in no call
NoLoc == [op |-> "none", n |-> <<>>, i |-> 0, t0 |-> 0, b |-> FALSE, f |-> <<>>]

\* the call that has just returned was not made on a SubFS
NoVia == [d |-> <<>>, name |-> <<>>, on |-> FALSE]

\* a key struct (the fs back pointer is the one FS of this model)
Key(bytes, name, modtime, expire) ==
  [bytes |-> bytes, name |-> name, modtime |-> modtime, expire |-> expire]

\* a nil *key
NoKey == Key(NilBytes, <<>>, 0, NilTime)

\* the map m without the key n
Without(m, n) == [x \in DOMAIN m \ {n} |-> m[x]]

\* the map m with n set to k
With(m, n, k) == [x \in DOMAIN m \cup {n} |-> IF x = n THEN k ELSE m[x]]

\* the map m cut down to the keys in S
Restrict(m, S) == [x \in DOMAIN m \cap S |-> m[x]]

\* an After that also holds of equal instants
After_ge(t, u) == t >= u

\* time.Time.After
After(t, u) == t > u

\* the record of a call: k is the key a retrieval resolved (Open wraps it in a
\* File, ReadFile returns a copy of k.bytes, Stat wraps it in a FileStat) or
\* the key Put built, hit whether lookup found a live key, invoked the callback
\* indexes called, in order, gone the names the call deleted from the map
Call(op, path, k, err, hit, invoked, gone) ==
  [op |-> op, path |-> path, k |-> k, err |-> err, hit |-> hit, invoked |-> invoked,
   gone |-> gone, n |-> -1]

\* a call that takes no name, deletes nothing and returns only an error
Plain(op, err) == Call(op, <<>>, NoKey, err, FALSE, <<>>, {})

\* FS.lookup; the nil-pointer branch is omitted, no call stores a nil *key
lookup(ks, name, t) ==
  IF name \notin DOMAIN ks THEN [k |-> NoKey, found |-> FALSE, keys |-> ks]
  ELSE IF ks[name].expire # NilTime /\ After(t, ks[name].expire)
    THEN [k |-> NoKey, found |-> FALSE, keys |-> Without(ks, name)]
  ELSE [k |-> ks[name], found |-> TRUE, keys |-> ks]

\* scan in registration order (FIFO): the first registered callback is called first
RECURSIVE scanUp(_, _, _, _, _)
scanUp(cbs, j, name, t, invoked) ==
  IF j > Len(cbs) THEN [r |-> Declines, invoked |-> invoked]
  ELSE LET r == Fulfiller(cbs[j], name, t) IN
       IF r.err # NoErr \/ r.content # NilBytes THEN [r |-> r, invoked |-> Append(invoked, j)]
       ELSE scanUp(cbs, j + 1, name, t, Append(invoked, j))

scan_fifo(cbs, i, name, t, invoked) == scanUp(cbs, 1, name, t, invoked)

\* a scan that treats an error like "not mine" and goes on
RECURSIVE scan_skiperr(_, _, _, _, _)
scan_skiperr(cbs, i, name, t, invoked) ==
  IF i = 0 THEN [r |-> Declines, invoked |-> invoked]
  ELSE LET r == Fulfiller(cbs[i], name, t) IN
       IF r.err = NoErr /\ r.content # NilBytes THEN [r |-> r, invoked |-> Append(invoked, i)]
       ELSE scan_skiperr(cbs, i - 1, name, t, Append(invoked, i))

\* the loop of FS.fulfill from index i down: the outcome it ends with and the
\* indexes it called
RECURSIVE scan(_, _, _, _, _)
scan(cbs, i, name, t, invoked) ==
  IF i = 0 THEN [r |-> Declines, invoked |-> invoked]
  ELSE LET r == Fulfiller(cbs[i], name, t) IN
       IF r.err # NoErr THEN [r |-> r, invoked |-> Append(invoked, i)]
       ELSE IF r.content # NilBytes THEN [r |-> r, invoked |-> Append(invoked, i)]
       ELSE scan(cbs, i - 1, name, t, Append(invoked, i))

\* a caching rule that stores every result
cacheable_always(expire) == TRUE

\* a caching rule that forgets the IsZero test
cacheable_nonnil(expire) == expire # NilTime

\* the caching rule of FS.fulfill
cacheable(expire) == expire # NilTime /\ expire # 0

\* a fulfill that caches an empty key when a Fulfiller fails
fulfill_negcache(ks, cbs, name, t) ==
  LET s == scan(cbs, Len(cbs), name, t, <<>>) IN
  IF s.r.err # NoErr
    THEN [k |-> NoKey, err |-> s.r.err, keys |-> With(ks, name, Key("", name, t, NilTime)),
          invoked |-> s.invoked]
  ELSE IF s.r.content = NilBytes
    THEN [k |-> NoKey, err |-> ErrNotExist, keys |-> ks, invoked |-> s.invoked]
  ELSE LET modtime == IF s.r.modtime = NilTime THEN t ELSE s.r.modtime
           k == Key(s.r.content, name, modtime, s.r.expire)
       IN [k |-> k, err |-> NoErr,
           keys |-> IF cacheable(s.r.expire) THEN With(ks, name, k) ELSE ks,
           invoked |-> s.invoked]

\* FS.fulfill
fulfill(ks, cbs, name, t) ==
  LET s == scan(cbs, Len(cbs), name, t, <<>>) IN
  IF s.r.err # NoErr
    THEN [k |-> NoKey, err |-> s.r.err, keys |-> ks, invoked |-> s.invoked]
  ELSE IF s.r.content = NilBytes
    THEN [k |-> NoKey, err |-> ErrNotExist, keys |-> ks, invoked |-> s.invoked]
  ELSE LET modtime == IF s.r.modtime = NilTime THEN t ELSE s.r.modtime
           k == Key(s.r.content, name, modtime, s.r.expire)
       IN [k |-> k, err |-> NoErr,
           keys |-> IF cacheable(s.r.expire) THEN With(ks, name, k) ELSE ks,
           invoked |-> s.invoked]

\* the invocation counts after the callbacks at the indexes of invoked ran
Count(cs, invoked) ==
  [i \in 1..Len(cs) |-> cs[i] + Cardinality({j \in 1..Len(invoked) : invoked[j] = i})]

\* the body shared by Open, ReadFile and Stat: lookup, then fulfill if allowed
retrieve(op, name, mayFulfill) ==
  LET n == Norm(name, caseInsensitive)
      lk == lookup(keys, n, now)
  IN IF lk.found
       THEN /\ keys' = lk.keys
            /\ calls' = calls
            /\ seeded' = seeded
            /\ last' = Call(op, name, lk.k, NoErr, TRUE, <<>>, {})
     ELSE IF ~mayFulfill
       THEN /\ keys' = lk.keys
            /\ calls' = calls
            /\ seeded' = Without(seeded, n)
            /\ last' = Call(op, name, NoKey, ErrNotExist, FALSE, <<>>,
                            DOMAIN keys \ DOMAIN lk.keys)
     ELSE LET f == fulfill(lk.keys, callbacks, n, now) IN
            /\ keys' = f.keys
            /\ calls' = Count(calls, f.invoked)
            /\ seeded' = Without(seeded, n)
            /\ last' = Call(op, name, f.k, f.err, FALSE, f.invoked,
                            DOMAIN keys \ DOMAIN lk.keys)

\* ------------------------------------------------------------------ actions
Init ==
  /\ keys = <<>>
  /\ callbacks = <<>>
  /\ caseInsensitive = FALSE
  /\ statFulfills = FALSE
  /\ now = 1
  /\ calls = <<>>
  /\ seeded = <<>>
  /\ last = Plain("New", NoErr)
  /\ nops = 0
  /\ views = <<>>
  /\ via = NoVia
  /\ mu = 0
  /\ pc = [t \in Threads |-> "idle"]
  /\ loc = [t \in Threads |-> NoLoc]

\* one more call is made
Called ==
  /\ nops < MaxOps
  /\ nops' = nops + 1
  /\ via' = NoVia
  /\ UNCHANGED <<views, mu, pc, loc>>

\* FS.FulfillWith(f...)
FulfillWith(f) ==
  /\ Called
  /\ Len(callbacks) + Len(f) <= MaxChain
  /\ callbacks' = callbacks \o f
  /\ calls' = calls \o [i \in 1..Len(f) |-> 0]
  /\ last' = Plain("FulfillWith", NoErr)
  /\ UNCHANGED <<keys, caseInsensitive, statFulfills, now, seeded>>

\* a Set(CaseInsensitive(b)) that skips the test for existing keys
SetCaseInsensitive_force(b) ==
  /\ Called
  /\ last' = Plain("SetCaseInsensitive", NoErr)
  /\ caseInsensitive' = b
  /\ UNCHANGED <<keys, callbacks, statFulfills, now, calls, seeded>>

\* FS.Set(CaseInsensitive(b))
SetCaseInsensitive(b) ==
  /\ Called
  /\ IF Cardinality(DOMAIN keys) > 0
       THEN /\ last' = Plain("SetCaseInsensitive", "cannot update case sensitivity")
            /\ UNCHANGED caseInsensitive
       ELSE /\ last' = Plain("SetCaseInsensitive", NoErr)
            /\ caseInsensitive' = b
  /\ UNCHANGED <<keys, callbacks, statFulfills, now, calls, seeded>>

\* FS.Set(StatFulfills(b))
SetStatFulfills(b) ==
  /\ Called
  /\ statFulfills' = b
  /\ last' = Plain("SetStatFulfills", NoErr)
  /\ UNCHANGED <<keys, callbacks, caseInsensitive, now, calls, seeded>>

\* a Put that honours the do-not-cache sentinel: a zero expiry is not stored
Put_sentinel(name, content, modtime, expire) ==
  /\ Called
  /\ LET n == Norm(name, caseInsensitive)
         k == Key(content, n, modtime, expire)
     IN /\ keys' = IF expire = 0 THEN keys ELSE With(keys, n, k)
        /\ seeded' = IF expire = 0 THEN seeded ELSE With(seeded, n, name)
        /\ last' = Call("Put", name, k, NoErr, FALSE, <<>>, {})
  /\ UNCHANGED <<callbacks, caseInsensitive, statFulfills, now, calls>>

\* a Put that stores the key under the name as given
Put_raw(name, content, modtime, expire) ==
  /\ Called
  /\ LET k == Key(content, name, modtime, expire)
     IN /\ keys' = With(keys, name, k)
        /\ seeded' = With(seeded, name, name)
        /\ last' = Call("Put", name, k, NoErr, FALSE, <<>>, {})
  /\ UNCHANGED <<callbacks, caseInsensitive, statFulfills, now, calls>>

\* FS.Put
Put(name, content, modtime, expire) ==
  /\ Called
  /\ LET n == Norm(name, caseInsensitive)
         k == Key(content, n, modtime, expire)
     IN /\ keys' = With(keys, n, k)
        /\ seeded' = With(seeded, n, name)
        /\ last' = Call("Put", name, k, NoErr, FALSE, <<>>, {})
  /\ UNCHANGED <<callbacks, caseInsensitive, statFulfills, now, calls>>

\* FS.Open
Open(name) ==
  /\ Called
  /\ retrieve("Open", name, TRUE)
  /\ UNCHANGED <<callbacks, caseInsensitive, statFulfills, now>>

\* FS.ReadFile
ReadFile(name) ==
  /\ Called
  /\ retrieve("ReadFile", name, TRUE)
  /\ UNCHANGED <<callbacks, caseInsensitive, statFulfills, now>>

\* a Stat that fulfills whatever the flag says
Stat_always(name) ==
  /\ Called
  /\ retrieve("Stat", name, TRUE)
  /\ UNCHANGED <<callbacks, caseInsensitive, statFulfills, now>>

\* a Stat that never calls fulfill
Stat_never(name) ==
  /\ Called
  /\ retrieve("Stat", name, FALSE)
  /\ UNCHANGED <<callbacks, caseInsensitive, statFulfills, now>>

\* FS.Stat
Stat(name) ==
  /\ Called
  /\ retrieve("Stat", name, statFulfills)
  /\ UNCHANGED <<callbacks, caseInsensitive, statFulfills, now>>

\* an Expire that deletes the name as given
Expire_raw(name) ==
  /\ Called
  /\ keys' = Without(keys, name)
  /\ seeded' = Without(seeded, name)
  /\ last' = Call("Expire", name, NoKey, NoErr, FALSE, <<>>, DOMAIN keys \cap {name})
  /\ UNCHANGED <<callbacks, caseInsensitive, statFulfills, now, calls>>

\* FS.Expire
Expire(name) ==
  /\ Called
  /\ keys' = Without(keys, Norm(name, caseInsensitive))
  /\ seeded' = Without(seeded, Norm(name, caseInsensitive))
  /\ last' = Call("Expire", name, NoKey, NoErr, FALSE, <<>>,
                  DOMAIN keys \cap {Norm(name, caseInsensitive)})
  /\ UNCHANGED <<callbacks, caseInsensitive, statFulfills, now, calls>>

\* a sweep that also collects the keys expiring at this very instant
expired_ge(ks, n) == {x \in DOMAIN ks : ks[x].expire # NilTime /\ n >= ks[x].expire}

\* the keys FlushExpired collects in e at instant n
expired(ks, n) == {x \in DOMAIN ks : ks[x].expire # NilTime /\ After(n, ks[x].expire)}

\* FS.FlushExpired
FlushExpired ==
  /\ Called
  /\ keys' = Restrict(keys, DOMAIN keys \ expired(keys, now))
  /\ seeded' = Restrict(seeded, DOMAIN keys \ expired(keys, now))
  /\ last' = Call("FlushExpired", <<>>, NoKey, NoErr, FALSE, <<>>, expired(keys, now))
  /\ UNCHANGED <<callbacks, caseInsensitive, statFulfills, now, calls>>

\* a Len that leaves out the keys whose expire has passed
Len_live ==
  /\ Called
  /\ last' = [Plain("Len", NoErr) EXCEPT
               !.n = Cardinality(DOMAIN keys \ expired(keys, now))]
  /\ UNCHANGED <<keys, callbacks, caseInsensitive, statFulfills, now, calls, seeded>>

\* FS.Len; the int it returns is last.n
Len_ ==
  /\ Called
  /\ last' = [Plain("Len", NoErr) EXCEPT !.n = Cardinality(DOMAIN keys)]
  /\ UNCHANGED <<keys, callbacks, caseInsensitive, statFulfills, now, calls, seeded>>

\* the clock advances
Tick ==
  /\ now < MaxTime
  /\ now' = now + 1
  /\ last' = Plain("none", NoErr)
  /\ via' = NoVia
  /\ UNCHANGED <<keys, callbacks, caseInsensitive, statFulfills, calls, seeded, nops, views,
                 mu, pc, loc>>

\* the argument lists of FulfillWith
GenLists == {<<g>> : g \in Gens} \cup {<<"composeNil", "custom">>, <<"custom", "composeNil">>}

\* the expiry arguments of Put at instant t: nil, the zero time, the instant
\* before now, now
PutExpires(t) == {NilTime, 0, t - 1, t}

Next ==
  \/ \E f \in GenLists : FulfillWith(f)
  \/ \E b \in BOOLEAN : SetCaseInsensitive(b)
  \/ \E b \in BOOLEAN : SetStatFulfills(b)
  \/ \E name \in RawPaths, content \in PutContents, modtime \in PutModTimes,
        expire \in PutExpires(now) : Put(name, content, modtime, expire)
  \/ \E name \in RawPaths : Open(name)
  \/ \E name \in RawPaths : ReadFile(name)
  \/ \E name \in RawPaths : Stat(name)
  \/ \E name \in RawPaths : Expire(name)
  \/ FlushExpired
  \/ Len_
  \/ Tick

Spec == Init /\ [][Next]_vars

\* ------------------------------------------------------------------ SubFS
\* one more call is made, on the SubFS with prefix d
CalledVia(d, name) ==
  /\ d \in DOMAIN views
  /\ nops < MaxOps
  /\ nops' = nops + 1
  /\ via' = [d |-> d, name |-> name, on |-> TRUE]
  /\ UNCHANGED <<views, mu, pc, loc>>

\* FS.Sub: a SubFS holding dir as given
Sub(dir) ==
  /\ dir \notin DOMAIN views
  /\ views' = With(views, dir, [nested |-> FALSE, p |-> <<>>, dir |-> dir])
  /\ UNCHANGED <<keys, callbacks, caseInsensitive, statFulfills, now, calls, seeded, last,
                 nops, via, mu, pc, loc>>

\* a SubFS.Sub that drops the prefix of the SubFS it is called on
SubFS_Sub_flat(d, dir) ==
  /\ d \in DOMAIN views
  /\ dir \notin DOMAIN views
  /\ views' = With(views, dir, [nested |-> TRUE, p |-> d, dir |-> dir])
  /\ UNCHANGED <<keys, callbacks, caseInsensitive, statFulfills, now, calls, seeded, last,
                 nops, via, mu, pc, loc>>

\* SubFS.Sub
SubFS_Sub(d, dir) ==
  /\ d \in DOMAIN views
  /\ Join(d, dir) \notin DOMAIN views
  /\ views' = With(views, Join(d, dir), [nested |-> TRUE, p |-> d, dir |-> dir])
  /\ UNCHANGED <<keys, callbacks, caseInsensitive, statFulfills, now, calls, seeded, last,
                 nops, via, mu, pc, loc>>

\* a SubFS.Open that joins the name with the prefix of the SubFS it was made
\* from
SubFS_Open_parent(d, name) ==
  /\ CalledVia(d, name)
  /\ retrieve("Open", Join(IF views[d].nested THEN views[d].p ELSE d, name), TRUE)
  /\ UNCHANGED <<callbacks, caseInsensitive, statFulfills, now>>

\* SubFS.Open
SubFS_Open(d, name) ==
  /\ CalledVia(d, name)
  /\ retrieve("Open", Join(d, name), TRUE)
  /\ UNCHANGED <<callbacks, caseInsensitive, statFulfills, now>>

\* SubFS.ReadFile
SubFS_ReadFile(d, name) ==
  /\ CalledVia(d, name)
  /\ retrieve("ReadFile", Join(d, name), TRUE)
  /\ UNCHANGED <<callbacks, caseInsensitive, statFulfills, now>>

\* SubFS.Stat
SubFS_Stat(d, name) ==
  /\ CalledVia(d, name)
  /\ retrieve("Stat", Join(d, name), statFulfills)
  /\ UNCHANGED <<callbacks, caseInsensitive, statFulfills, now>>

\* what Put and FulfillWith are called with on an FS that is read through
\* its SubFS
SubPutPaths == {P_ac, P_slash_b}
SubPutContents == {"p"}
SubGenLists == {<<g>> : g \in Gens}

\* an FS that is seeded and configured directly and read through its SubFS
NextSub ==
  \/ \E f \in SubGenLists : FulfillWith(f)
  \/ \E b \in BOOLEAN : SetStatFulfills(b)
  \/ \E name \in SubPutPaths, content \in SubPutContents, modtime \in PutModTimes,
        expire \in PutExpires(now) : Put(name, content, modtime, expire)
  \/ \E dir \in SubDirs : Sub(dir)
  \/ \E d \in ViewDirs, dir \in NestDirs : SubFS_Sub(d, dir)
  \/ \E d \in ViewDirs, name \in ViewNames : SubFS_Open(d, name)
  \/ \E d \in ViewDirs, name \in ViewNames : SubFS_ReadFile(d, name)
  \/ \E d \in ViewDirs, name \in ViewNames : SubFS_Stat(d, name)
  \/ Tick

SpecSub == Init /\ [][NextSub]_vars

\* ------------------------------------------------------------------ goroutines
\* The calls of one FS made by Threads at the same time. A call is split at
\* the points where another goroutine can run: before d.mu.Lock(), while a
\* Fulfiller runs, and before d.mu.Unlock().

\* the calls that return a key
Retrievals == {"Open", "ReadFile", "Stat"}
NamedOps == {"Put", "Open", "ReadFile", "Stat", "Expire"}
ConcPaths == {P_AC}
ConcPutExpires == {NilTime, 0}
ConcContents == {"p"}

\* goroutine t moves to pc value at with locals l
Goto(t, at, l) ==
  /\ pc' = [pc EXCEPT ![t] = at]
  /\ loc' = [loc EXCEPT ![t] = l]

\* goroutine t makes one more call
Enter(t) ==
  /\ pc[t] = "idle"
  /\ nops < MaxOps
  /\ nops' = nops + 1
  /\ UNCHANGED <<keys, callbacks, caseInsensitive, statFulfills, now, calls, seeded, last,
                 views, via, mu>>

\* one step of the call that goroutine t is in
Within(t, at) ==
  /\ pc[t] = at
  /\ UNCHANGED <<now, calls, seeded, last, nops, views, via>>

\* Put, Open, ReadFile, Stat, Expire up to d.mu.Lock(): d.normalize(name),
\* which reads d.caseInsensitive
GoNormalize(t, op, name) ==
  /\ Enter(t)
  /\ Goto(t, "lock", [NoLoc EXCEPT !.op = op, !.n = Norm(name, caseInsensitive)])

\* Set(CaseInsensitive(b)) and Set(StatFulfills(b)) up to d.mu.Lock()
GoSet(t, op, b) ==
  /\ Enter(t)
  /\ Goto(t, "lock", [NoLoc EXCEPT !.op = op, !.b = b])

\* FulfillWith(f...) up to d.mu.Lock()
GoFulfillWith(t, f) ==
  /\ Enter(t)
  /\ Len(callbacks) + Len(f) <= MaxChain
  /\ Goto(t, "lock", [NoLoc EXCEPT !.op = "FulfillWith", !.f = f])

\* Len up to d.mu.Lock()
GoLen(t) ==
  /\ Enter(t)
  /\ Goto(t, "lock", [NoLoc EXCEPT !.op = "Len"])

\* FlushExpired is entered
GoFlushExpired(t) ==
  /\ Enter(t)
  /\ Goto(t, "len", [NoLoc EXCEPT !.op = "FlushExpired"])

\* FlushExpired before d.mu.Lock(): len(d.keys) and time.Now() are read
FlushLen(t) ==
  /\ Within(t, "len")
  /\ Goto(t, "lock", [loc[t] EXCEPT !.t0 = now])
  /\ UNCHANGED <<keys, callbacks, caseInsensitive, statFulfills, mu>>

\* a d.mu.Lock() that does not wait
Lock_nowait(t) ==
  /\ Within(t, "lock")
  /\ mu' = t
  /\ Goto(t, "body", loc[t])
  /\ UNCHANGED <<keys, callbacks, caseInsensitive, statFulfills>>

\* d.mu.Lock()
Lock(t) ==
  /\ Within(t, "lock")
  /\ mu = 0
  /\ mu' = t
  /\ Goto(t, "body", loc[t])
  /\ UNCHANGED <<keys, callbacks, caseInsensitive, statFulfills>>

\* d.mu.Unlock(), deferred or explicit, and the return
Unlock(t) ==
  /\ Within(t, "unlock")
  /\ mu' = 0
  /\ Goto(t, "idle", NoLoc)
  /\ UNCHANGED <<keys, callbacks, caseInsensitive, statFulfills>>

\* Put between Lock and Unlock
DoPut(t, content, modtime, expire) ==
  /\ Within(t, "body")
  /\ loc[t].op = "Put"
  /\ keys' = With(keys, loc[t].n, Key(content, loc[t].n, modtime, expire))
  /\ Goto(t, "unlock", loc[t])
  /\ UNCHANGED <<callbacks, caseInsensitive, statFulfills, mu>>

\* Open, ReadFile, Stat: d.lookup(n), then into fulfill and its first
\* Fulfiller unless the key is found or Stat does not fulfill
DoLookup(t) ==
  /\ Within(t, "body")
  /\ loc[t].op \in Retrievals
  /\ LET lk == lookup(keys, loc[t].n, now) IN
       /\ keys' = lk.keys
       /\ IF lk.found \/ (loc[t].op = "Stat" /\ ~statFulfills) \/ callbacks = <<>>
            THEN Goto(t, "unlock", loc[t])
            ELSE Goto(t, "gen", [loc[t] EXCEPT !.i = Len(callbacks)])
  /\ UNCHANGED <<callbacks, caseInsensitive, statFulfills, mu>>

\* fulfill: d.callbacks[idx](name) returns; on an error or after the last
\* Fulfiller the call is over, on nil content the next Fulfiller is called,
\* on content the key is made and stored if it may be
DoGen(t) ==
  /\ Within(t, "gen")
  /\ LET r == Fulfiller(callbacks[loc[t].i], loc[t].n, now) IN
       IF r.err # NoErr
         THEN keys' = keys /\ Goto(t, "unlock", loc[t])
       ELSE IF r.content = NilBytes
         THEN /\ keys' = keys
              /\ IF loc[t].i > 1
                   THEN Goto(t, "gen", [loc[t] EXCEPT !.i = loc[t].i - 1])
                   ELSE Goto(t, "unlock", loc[t])
       ELSE /\ keys' = IF cacheable(r.expire)
                         THEN With(keys, loc[t].n,
                                   Key(r.content, loc[t].n,
                                       IF r.modtime = NilTime THEN now ELSE r.modtime,
                                       r.expire))
                         ELSE keys
            /\ Goto(t, "unlock", loc[t])
  /\ UNCHANGED <<callbacks, caseInsensitive, statFulfills, mu>>

\* Expire between Lock and Unlock
DoExpire(t) ==
  /\ Within(t, "body")
  /\ loc[t].op = "Expire"
  /\ keys' = Without(keys, loc[t].n)
  /\ Goto(t, "unlock", loc[t])
  /\ UNCHANGED <<callbacks, caseInsensitive, statFulfills, mu>>

\* FlushExpired between Lock and Unlock, with the time.Now() read before Lock
DoFlushExpired(t) ==
  /\ Within(t, "body")
  /\ loc[t].op = "FlushExpired"
  /\ keys' = Restrict(keys, DOMAIN keys \ expired(keys, loc[t].t0))
  /\ Goto(t, "unlock", loc[t])
  /\ UNCHANGED <<callbacks, caseInsensitive, statFulfills, mu>>

\* Len between Lock and Unlock
DoLen(t) ==
  /\ Within(t, "body")
  /\ loc[t].op = "Len"
  /\ Goto(t, "unlock", [loc[t] EXCEPT !.i = Cardinality(DOMAIN keys)])
  /\ UNCHANGED <<keys, callbacks, caseInsensitive, statFulfills, mu>>

\* Set between Lock and Unlock: o.applyTo(d)
DoSet(t) ==
  /\ Within(t, "body")
  /\ loc[t].op \in {"SetCaseInsensitive", "SetStatFulfills"}
  /\ caseInsensitive' = IF loc[t].op = "SetCaseInsensitive" /\ Cardinality(DOMAIN keys) = 0
                          THEN loc[t].b ELSE caseInsensitive
  /\ statFulfills' = IF loc[t].op = "SetStatFulfills" THEN loc[t].b ELSE statFulfills
  /\ Goto(t, "unlock", loc[t])
  /\ UNCHANGED <<keys, callbacks, mu>>

\* FulfillWith between Lock and Unlock
DoFulfillWith(t) ==
  /\ Within(t, "body")
  /\ loc[t].op = "FulfillWith"
  /\ callbacks' = IF Len(callbacks) + Len(loc[t].f) <= MaxChain
                    THEN callbacks \o loc[t].f ELSE callbacks
  /\ Goto(t, "unlock", loc[t])
  /\ UNCHANGED <<keys, caseInsensitive, statFulfills, mu>>

NextConc ==
  \/ \E t \in Threads, op \in NamedOps, name \in ConcPaths : GoNormalize(t, op, name)
  \/ \E t \in Threads, op \in {"SetCaseInsensitive", "SetStatFulfills"}, b \in BOOLEAN :
        GoSet(t, op, b)
  \/ \E t \in Threads, f \in SubGenLists : GoFulfillWith(t, f)
  \/ \E t \in Threads : GoLen(t)
  \/ \E t \in Threads : GoFlushExpired(t)
  \/ \E t \in Threads : FlushLen(t)
  \/ \E t \in Threads : Lock(t)
  \/ \E t \in Threads : Unlock(t)
  \/ \E t \in Threads, content \in ConcContents, modtime \in PutModTimes,
        expire \in ConcPutExpires : DoPut(t, content, modtime, expire)
  \/ \E t \in Threads : DoLookup(t)
  \/ \E t \in Threads : DoGen(t)
  \/ \E t \in Threads : DoExpire(t)
  \/ \E t \in Threads : DoFlushExpired(t)
  \/ \E t \in Threads : DoLen(t)
  \/ \E t \in Threads : DoSet(t)
  \/ \E t \in Threads : DoFulfillWith(t)
  \/ Tick

SpecConc == Init /\ [][NextConc]_vars

\* New(StatFulfills(true))
InitStat ==
  /\ keys = <<>>
  /\ callbacks = <<>>
  /\ caseInsensitive = FALSE
  /\ statFulfills = TRUE
  /\ now = 1
  /\ calls = <<>>
  /\ seeded = <<>>
  /\ last = Plain("New", NoErr)
  /\ nops = 0
  /\ views = <<>>
  /\ via = NoVia
  /\ mu = 0
  /\ pc = [t \in Threads |-> "idle"]
  /\ loc = [t \in Threads |-> NoLoc]

SpecStat == InitStat /\ [][Next]_vars



\* ------------------------------------------------------------------ claims
\* the key the last call addressed
lastKey == Norm(last.path, caseInsensitive)

\* what the i-th registered Fulfiller returns for the key of the last call
Out(i) == Fulfiller(callbacks[i], lastKey, now)

Answers(i) == Out(i).content # NilBytes /\ Out(i).err = NoErr
Fails(i) == Out(i).err # NoErr
Passes(i) == Out(i).content = NilBytes /\ Out(i).err = NoErr

\* the indexes Len(callbacks), Len(callbacks)-1, ..., i in that order
DownTo(i) == [j \in 1..(Len(callbacks) - i + 1) |-> Len(callbacks) - j + 1]

\* the last call was an Open or ReadFile that missed the cache and ran fulfill
MissedRead == last.op \in {"Open", "ReadFile"} /\ ~last.hit

\* C1: on a cache miss, Open/ReadFile call the Fulfillers in reverse
\* registration order; the answer is the content of the last-registered
\* Fulfiller that returns content (every later-registered one having returned
\* nil, nil), no earlier-registered one is called, and if all of them decline
\* or there is none the call fails with fs.ErrNotExist.
C1_ReverseOrderFold ==
  MissedRead =>
    /\ \E i \in 1..(Len(callbacks) + 1) : last.invoked = DownTo(i)
    /\ \A i \in 1..Len(callbacks) :
         (Answers(i) /\ \A j \in (i + 1)..Len(callbacks) : Passes(j)) =>
           /\ last.err = NoErr
           /\ last.k.bytes = Out(i).content
           /\ last.invoked = DownTo(i)
    /\ (\A i \in 1..Len(callbacks) : Passes(i)) =>
           /\ last.err = ErrNotExist
           /\ last.invoked = DownTo(1)

\* C1 witness: a chain of two, the later one declined and the earlier answered
C1_Witness ==
  /\ MissedRead
  /\ Len(callbacks) = 2
  /\ Passes(2) /\ Answers(1)
  /\ last.invoked = <<2, 1>>
  /\ last.k.bytes = Out(1).content


\* the last call was a retrieval that missed the cache and ran fulfill
RanFulfill == last.op \in Retrievals /\ ~last.hit /\ (last.op # "Stat" \/ statFulfills)

\* C2: if a Fulfiller returns an error during fulfilment, the retrieval fails
\* with that error, no earlier-registered Fulfiller is called, and no entry for
\* the key is cached, even when an earlier one could have answered.
C2_ErrorShortCircuit ==
  RanFulfill =>
    \A i \in 1..Len(callbacks) :
      (Fails(i) /\ \A j \in (i + 1)..Len(callbacks) : Passes(j)) =>
        /\ last.err = Out(i).err
        /\ last.k = NoKey
        /\ \A j \in 1..Len(last.invoked) : last.invoked[j] >= i
        /\ lastKey \notin DOMAIN keys

\* C2 witness: the later Fulfiller failed while the earlier one had the content
C2_Witness ==
  /\ RanFulfill
  /\ Len(callbacks) = 2
  /\ Fails(2) /\ Answers(1)
  /\ last.err = Out(2).err
  /\ last.invoked = <<2>>
  /\ lastKey \notin DOMAIN keys

\* C3: content fulfilled with a nil expiry is stored as never expiring: after
\* the retrieval the map holds the key, and the next retrieval of that key is
\* served from the map without calling any Fulfiller.
C3_NilExpiryCached ==
  [][/\ (RanFulfill /\ last.err = NoErr /\ last.k.expire = NilTime =>
           lastKey \in DOMAIN keys /\ keys[lastKey] = last.k)'
     /\ (/\ last.op \in Retrievals /\ last.err = NoErr /\ last.k.expire = NilTime
         /\ last'.op \in Retrievals /\ nops' = nops + 1
         /\ Norm(last'.path, caseInsensitive) = lastKey)
        => last'.hit /\ last'.invoked = <<>> /\ last'.k = last.k]_vars

\* C4 as stated: fulfilment stores a result only if its expiry is nil or a
\* non-zero instant later than the current time.
C4_StoredOnlyIfFuture ==
  (RanFulfill /\ lastKey \in DOMAIN keys) =>
    \/ keys[lastKey].expire = NilTime
    \/ keys[lastKey].expire # 0 /\ keys[lastKey].expire > now

\* C4 amended: fulfilment stores a result only if its expiry is nil or a
\* non-zero instant (which may already have passed); no entry that fulfilment
\* put into the map has a zero expiry.
C4_NoZeroExpiryStored ==
  /\ (RanFulfill /\ lastKey \in DOMAIN keys) =>
       /\ keys[lastKey] = last.k
       /\ keys[lastKey].expire = NilTime \/ keys[lastKey].expire # 0
  /\ \A x \in DOMAIN keys \ DOMAIN seeded : keys[x].expire # 0

\* C4 witness: fulfilment stored a result whose expiry had already passed
C4_Witness ==
  /\ RanFulfill
  /\ lastKey \in DOMAIN keys
  /\ keys[lastKey] = last.k
  /\ last.k.expire # NilTime /\ last.k.expire # 0 /\ last.k.expire < now

\* C5: when the answering Fulfiller returns a zero expiry, Open/ReadFile return
\* its content and store nothing, so every retrieval of the key calls the chain
\* again: each one adds one to the answering Fulfiller's invocation count and
\* leaves the map as it was (but for a stale entry of that key, which lookup
\* removed).
C5_ZeroExpiryNeverStored ==
  [][(/\ last'.op \in {"Open", "ReadFile"} /\ nops' = nops + 1
      /\ ~last'.hit /\ last'.err = NoErr /\ last'.k.expire = 0)
     => LET n == Norm(last'.path, caseInsensitive)
            i == last'.invoked[Len(last'.invoked)]
        IN /\ last'.k.bytes = Fulfiller(callbacks[i], n, now).content
           /\ n \notin DOMAIN keys'
           /\ keys' = Without(keys, n)
           /\ n \notin DOMAIN keys => Cardinality(DOMAIN keys') = Cardinality(DOMAIN keys)
           /\ calls'[i] = calls[i] + 1]_vars

\* C5 witness: two retrievals of a key answered with a zero expiry, two
\* invocations, the map still empty
C5_Witness ==
  /\ MissedRead /\ last.err = NoErr /\ last.k.expire = 0
  /\ Len(callbacks) = 1
  /\ calls[1] = 2
  /\ nops = 3
  /\ keys = <<>>


\* a key whose expiry is nil or has not passed at instant t
Live(k, t) == k.expire = NilTime \/ k.expire >= t

\* the step is a call of one of the operations in ops
Calls(ops) == last'.op \in ops /\ nops' = nops + 1

\* C6 as stated: a retrieval never returns a cached key whose expiry is present
\* and not after the current time, an expiry equal to now counting as expired.
C6_EqualCountsAsExpired ==
  (last.op \in Retrievals /\ last.hit) => last.k.expire = NilTime \/ last.k.expire > now

\* C6 amended: a retrieval never returns a cached key whose expiry is present
\* and strictly before the current time: it deletes the mapping and goes on as
\* on a miss (fulfilment or fs.ErrNotExist).  A key with a nil expiry or an
\* expiry not before now (equal to now included) is returned from the map.
C6_StaleNeverReturned ==
  [][Calls(Retrievals) =>
      LET n == Norm(last'.path, caseInsensitive) IN
      n \in DOMAIN keys =>
        IF keys[n].expire # NilTime /\ keys[n].expire < now
          THEN /\ ~last'.hit
               /\ n \in last'.gone
               /\ n \in DOMAIN keys' => last'.invoked # <<>> /\ keys'[n] = last'.k
               /\ last'.err = NoErr => last'.invoked # <<>>
               /\ last'.invoked = <<>> => last'.err = ErrNotExist /\ n \notin DOMAIN keys'
          ELSE /\ last'.hit
               /\ last'.k = keys[n]
               /\ last'.err = NoErr
               /\ last'.invoked = <<>>
               /\ keys' = keys]_vars

\* C6 witness: a retrieval found a stale key, deleted it and fulfilled afresh
C6_Witness ==
  /\ last.op \in Retrievals
  /\ lastKey \in last.gone
  /\ ~last.hit
  /\ last.err = NoErr
  /\ last.invoked # <<>>

\* C7: an unexpired key seeded by Put under p1 is returned by Open, ReadFile
\* and Stat under every p2 that normalizes as p1 does, without any Fulfiller
\* being called, and the map holds exactly one entry for them.
C7_SameSlot ==
  [][Calls(Retrievals) =>
      LET p2 == last'.path IN
      \A x \in DOMAIN seeded :
        (/\ Norm(seeded[x], caseInsensitive) = Norm(p2, caseInsensitive)
         /\ x \in DOMAIN keys /\ Live(keys[x], now))
        => /\ last'.hit
           /\ last'.k = keys[x]
           /\ last'.err = NoErr
           /\ last'.invoked = <<>>
           /\ calls' = calls
           /\ Cardinality({y \in DOMAIN keys' :
                Norm(y, caseInsensitive) = Norm(p2, caseInsensitive)}) = 1]_vars

\* C7 witness: seeded under //a/./b/../c, read back under a/c
C7_Witness ==
  /\ last.op \in Retrievals
  /\ last.hit
  /\ last.path = P_ac
  /\ lastKey \in DOMAIN seeded
  /\ seeded[lastKey] = P_messy
  /\ last.k.bytes \in PutContents

\* C8: Put stores unconditionally, a zero expiry included: right after Put the
\* map holds exactly the new key under the normalized name, every other key is
\* unchanged, the entry count grows by one only if the name was absent, and no
\* Fulfiller is called; a retrieval right after a Put of that name that is
\* served from the map returns the key just put.
C8_PutUnconditional ==
  [][/\ Calls({"Put"}) =>
          LET n == Norm(last'.path, caseInsensitive) IN
          /\ last'.err = NoErr
          /\ last'.k.name = n
          /\ DOMAIN keys' = DOMAIN keys \cup {n}
          /\ keys'[n] = last'.k
          /\ \A x \in DOMAIN keys \ {n} : keys'[x] = keys[x]
          /\ Cardinality(DOMAIN keys') =
               Cardinality(DOMAIN keys) + (IF n \in DOMAIN keys THEN 0 ELSE 1)
          /\ last'.invoked = <<>>
          /\ calls' = calls
          /\ callbacks' = callbacks
     /\ (last.op = "Put" /\ Calls(Retrievals)
           /\ Norm(last'.path, caseInsensitive) = Norm(last.path, caseInsensitive))
        => /\ Live(last.k, now) => last'.hit
           /\ last'.hit => last'.k = last.k]_vars

\* C8 witness: a Put with a zero expiry sits in the map beside another key
C8_Witness ==
  /\ last.op = "Put"
  /\ last.k.expire = 0
  /\ lastKey \in DOMAIN keys
  /\ keys[lastKey] = last.k
  /\ Cardinality(DOMAIN keys) = 2

\* C9: with statFulfills false, Stat of a name with no live key returns
\* fs.ErrNotExist and calls no Fulfiller (every invocation count stays as it
\* was), even when a registered Fulfiller has the content; Stat of a live key
\* returns that key's metadata.
C9_StatDoesNotFulfill ==
  [][(Calls({"Stat"}) /\ ~statFulfills) =>
      LET n == Norm(last'.path, caseInsensitive) IN
      /\ calls' = calls
      /\ last'.invoked = <<>>
      /\ IF n \in DOMAIN keys /\ Live(keys[n], now)
           THEN last'.err = NoErr /\ last'.k = keys[n]
           ELSE last'.err = ErrNotExist /\ last'.k = NoKey /\ n \notin DOMAIN keys']_vars

\* C9 witness: Stat reported fs.ErrNotExist for a name a Fulfiller could answer
C9_Witness ==
  /\ last.op = "Stat"
  /\ ~statFulfills
  /\ last.err = ErrNotExist
  /\ \E i \in 1..Len(callbacks) : Answers(i)
  /\ \A i \in 1..Len(calls) : calls[i] = 0

\* C10: FlushExpired removes exactly the keys whose expiry is present and
\* strictly before now and leaves every other key as it was: of N entries, K
\* of them expired, N-K remain; a second FlushExpired at the same instant
\* changes nothing.
C10_FlushExact ==
  [][Calls({"FlushExpired"}) =>
      LET K == {x \in DOMAIN keys : keys[x].expire # NilTime /\ keys[x].expire < now} IN
      /\ DOMAIN keys' = DOMAIN keys \ K
      /\ \A x \in DOMAIN keys' : keys'[x] = keys[x]
      /\ Cardinality(DOMAIN keys') = Cardinality(DOMAIN keys) - Cardinality(K)
      /\ last.op = "FlushExpired" => keys' = keys]_vars

\* C10 witness: a sweep removed an expired key and left another in place
C10_Witness ==
  /\ last.op = "FlushExpired"
  /\ last.gone # {}
  /\ keys # <<>>


\* C11: Expire removes the mapping of the normalized name if there is one and
\* returns no error either way; every other key, the callbacks and the flags
\* are unchanged, and an Open/ReadFile of that name right after it misses the
\* map and runs fulfill.
C11_ExpireFrame ==
  [][/\ Calls({"Expire"}) =>
          LET n == Norm(last'.path, caseInsensitive) IN
          /\ last'.err = NoErr
          /\ DOMAIN keys' = DOMAIN keys \ {n}
          /\ \A x \in DOMAIN keys' : keys'[x] = keys[x]
          /\ callbacks' = callbacks
          /\ calls' = calls
          /\ caseInsensitive' = caseInsensitive
          /\ statFulfills' = statFulfills
     /\ (last.op = "Expire" /\ Calls({"Open", "ReadFile"})
           /\ Norm(last'.path, caseInsensitive) = Norm(last.path, caseInsensitive))
        => /\ ~last'.hit
           /\ \E i \in 1..(Len(callbacks) + 1) : last'.invoked = DownTo(i)
           /\ callbacks # <<>> => last'.invoked # <<>>]_vars

\* C11 witness: Expire removed a key and left another one in the map
C11_Witness ==
  /\ last.op = "Expire"
  /\ last.err = NoErr
  /\ last.gone = {lastKey}
  /\ Cardinality(DOMAIN keys) = 1

\* C12: Set(CaseInsensitive) on an FS that holds a key fails and leaves the
\* flag and the keys as they were; it succeeds only on an FS with no keys.
C12_CaseInsensitiveOnlyWhenEmpty ==
  [][Calls({"SetCaseInsensitive"}) =>
      /\ keys' = keys
      /\ IF DOMAIN keys # {}
           THEN last'.err # NoErr /\ caseInsensitive' = caseInsensitive
           ELSE last'.err = NoErr]_vars

\* C12 witness: the option was refused on an FS holding a key
C12_Witness ==
  /\ last.op = "SetCaseInsensitive"
  /\ last.err # NoErr
  /\ keys # <<>>

\* the error of the call is one a Fulfiller returned
GenError(c) == c.err \notin {NoErr, ErrNotExist}

\* C16 as stated: a retrieval that fails with a Fulfiller's error leaves the
\* map exactly as it was, also when it held an expired key of that name.
C16_StoreUntouchedOnError ==
  [][(Calls(Retrievals) /\ GenError(last')) => keys' = keys]_vars

\* C16 amended: a retrieval that fails with a Fulfiller's error leaves the map
\* as it was but for an expired key of the requested name, which lookup has
\* deleted before fulfill ran.
C16_OnlyStaleKeyGoneOnError ==
  [][(Calls(Retrievals) /\ GenError(last')) =>
      LET n == Norm(last'.path, caseInsensitive) IN
      /\ DOMAIN keys' = DOMAIN keys \ {n}
      /\ \A x \in DOMAIN keys' : keys'[x] = keys[x]
      /\ n \in DOMAIN keys =>
           /\ keys[n].expire # NilTime /\ keys[n].expire < now
           /\ n \in last'.gone]_vars

\* C16 witness: the failing retrieval deleted the expired key of its name
C16_Witness ==
  /\ last.op \in Retrievals
  /\ GenError(last)
  /\ lastKey \in last.gone
  /\ lastKey \notin DOMAIN keys

\* C19: a key put with an expire that is the zero time or another instant
\* before now is stored and counted by Len, and the first Open/ReadFile/Stat
\* of its name does not return it: lookup deletes it and the call goes on as
\* it does when the name has no key.
C19_PastExpiryCountedNotReturned ==
  [][/\ (Calls({"Put"}) /\ last'.k.expire # NilTime /\ last'.k.expire < now)
          => LET n == Norm(last'.path, caseInsensitive) IN
             n \in DOMAIN keys' /\ keys'[n] = last'.k
     /\ Calls({"Len"}) => last'.n = Cardinality(DOMAIN keys) /\ keys' = keys
     /\ \A n \in DOMAIN seeded :
          (/\ Calls(Retrievals)
           /\ Norm(last'.path, caseInsensitive) = n
           /\ keys[n].expire # NilTime
           /\ keys[n].expire < now)
          => /\ ~last'.hit
             /\ n \in last'.gone
             /\ last'.k # keys[n]
             /\ IF last'.op = "Stat" /\ ~statFulfills
                  THEN /\ last'.err = ErrNotExist
                       /\ keys' = Without(keys, n)
                  ELSE LET f == fulfill(Without(keys, n), callbacks, n, now) IN
                       /\ last'.k = f.k
                       /\ last'.err = f.err
                       /\ last'.invoked = f.invoked
                       /\ keys' = f.keys]_vars

\* C19 witness: Len counts a key put with the zero time as its expire
C19_Witness ==
  /\ last.op = "Len"
  /\ last.n = 1
  /\ \E x \in DOMAIN seeded : keys[x].expire = 0

\* C17: with statFulfills set, a Stat of a name with no live key runs fulfill
\* as Open does (same Fulfillers in the same order, same error, same
\* fs.ErrNotExist, same rule for storing the key), and once such a Stat has
\* stored a key, an Open/ReadFile of the name before the key expires returns
\* that key and calls no Fulfiller.
C17_StatFulfillsLikeOpen ==
  [][/\ (Calls({"Stat"}) /\ statFulfills) =>
          LET n == Norm(last'.path, caseInsensitive)
              lk == lookup(keys, n, now)
              f == fulfill(lk.keys, callbacks, n, now)
          IN ~lk.found =>
               /\ ~last'.hit
               /\ last'.k = f.k
               /\ last'.err = f.err
               /\ last'.invoked = f.invoked
               /\ calls' = Count(calls, f.invoked)
               /\ keys' = f.keys
               /\ (f.err = NoErr /\ cacheable(f.k.expire))
                    => n \in DOMAIN keys' /\ keys'[n] = f.k
     /\ (/\ last.op = "Stat"
         /\ statFulfills
         /\ ~last.hit
         /\ last.err = NoErr
         /\ lastKey \in DOMAIN keys
         /\ Live(keys[lastKey], now)
         /\ Calls({"Open", "ReadFile"})
         /\ Norm(last'.path, caseInsensitive) = lastKey)
        => /\ last'.hit
           /\ last'.err = NoErr
           /\ last'.k = last.k
           /\ last'.invoked = <<>>
           /\ calls' = calls]_vars

\* C17 witness: a fulfilling Stat has just stored the key it returns, and an
\* Open/ReadFile of the name can follow
C17_Witness ==
  /\ statFulfills
  /\ last.op = "Stat"
  /\ ~last.hit
  /\ last.err = NoErr
  /\ last.invoked # <<>>
  /\ lastKey \in DOMAIN keys
  /\ keys[lastKey] = last.k
  /\ nops < MaxOps

\* C13: Open, ReadFile or Stat of name on the SubFS with prefix d has the
\* result and the effect of the same call on the FS with path.Join(d, name);
\* Sub(dir) on the SubFS with prefix d makes the SubFS with prefix
\* path.Join(d, dir) on the same FS.
C13_ViewIsJoinedCall ==
  [][/\ (via'.on /\ nops' = nops + 1) =>
          LET name == Join(via'.d, via'.name) IN
          /\ via'.d \in DOMAIN views
          /\ last'.op \in Retrievals
          /\ last'.path = name
          /\ \/ last'.op = "Open" /\ retrieve("Open", name, TRUE)
             \/ last'.op = "ReadFile" /\ retrieve("ReadFile", name, TRUE)
             \/ last'.op = "Stat" /\ retrieve("Stat", name, statFulfills)
          /\ UNCHANGED <<callbacks, caseInsensitive, statFulfills, now, views>>
     /\ \A d \in DOMAIN views' \ DOMAIN views :
          /\ views'[d].nested =>
               /\ views'[d].p \in DOMAIN views
               /\ d = Join(views'[d].p, views'[d].dir)
          /\ ~views'[d].nested => d = views'[d].dir
          /\ UNCHANGED <<keys, callbacks, caseInsensitive, statFulfills, now, calls>>]_vars

\* C13 witness: a call on a SubFS made by SubFS.Sub has run fulfill
C13_Witness ==
  /\ via.on
  /\ views[via.d].nested
  /\ last.op \in Retrievals
  /\ last.invoked # <<>>

\* name lies in the directory dir (both cleaned, without a leading slash)
Under(name, dir) ==
  \/ dir = <<".">>
  \/ name = dir
  \/ /\ Len(name) > Len(dir)
     /\ SubSeq(name, 1, Len(dir)) = dir
     /\ name[Len(dir) + 1] = "/"

\* C20: the key that a call on the SubFS with prefix d reads, fulfills or
\* stores lies under normalize(d), whatever name the call is given.
C20_ViewStaysUnderPrefix ==
  via.on => Under(lastKey, Norm(via.d, caseInsensitive))

\* goroutine t is in the lookup-fulfill-store part of Open, ReadFile or Stat
InRetrieval(t) == pc[t] \in {"body", "gen", "unlock"} /\ loc[t].op \in Retrievals

\* C14: a goroutine holds d.mu from lookup through fulfill, the Fulfiller
\* calls included, to the return, so at most one goroutine is in a Fulfiller
\* at any time and two retrievals of one name never fulfill it at once.
C14_OneFulfillAtATime ==
  /\ \A t \in Threads : InRetrieval(t) => mu = t
  /\ Cardinality({t \in Threads : pc[t] = "gen"}) <= 1
  /\ \A t \in Threads, u \in Threads :
       (t # u /\ InRetrieval(t) /\ loc[u].op \in Retrievals /\ loc[t].n = loc[u].n)
       => pc[u] = "lock"

\* C14 witness: one goroutine is in a Fulfiller while another waits for d.mu
\* to retrieve the same name
C14_Witness ==
  /\ pc[1] = "gen"
  /\ pc[2] = "lock"
  /\ loc[2].op \in Retrievals
  /\ loc[1].n = loc[2].n

\* the next step of goroutine t reads d.keys, and: writes d.keys
ReadsKeys(t) ==
  \/ pc[t] = "len"
  \/ pc[t] = "body" /\ loc[t].op \in Retrievals \cup
                         {"Put", "Expire", "FlushExpired", "Len", "SetCaseInsensitive"}
WritesKeys(t) ==
  \/ pc[t] = "body" /\ loc[t].op \in Retrievals \cup {"Put", "Expire", "FlushExpired"}
  \/ pc[t] = "gen"

\* C15: no goroutine is about to access d.keys without holding d.mu while
\* another is about to write it.
C15_NoUnlockedAccessDuringWrite ==
  \A t \in Threads, u \in Threads :
    (t # u /\ ReadsKeys(t) /\ WritesKeys(u)) => mu = t

\* C18: every key of d.keys is what normalize makes of it under the current
\* d.caseInsensitive and is the name of its entry.
C18_KeysNormalized ==
  \A x \in DOMAIN keys :
    /\ Norm(x, caseInsensitive) = x
    /\ keys[x].name = x

====
